---- MODULE Spec2Model ----
(***************************************************************************)
(* CraneFly OS (src/main.py): the two-button gesture decoder               *)
(* (ButtonHandler.get_input), the cooperative subprocess runner            *)
(* (SubprocessManager, ProcessControl), the file browser (FileBrowser),    *)
(* the menu (MenuSystem) and the main loop (CraneFlyOS.run).               *)
(*                                                                         *)
(* Two specifications share the module:                                    *)
(*   SpecDecoder  get_input statement by statement, against button lines   *)
(*                that change at any moment, with time in milliseconds;    *)
(*   Spec         the main loop, execute_file and the monitor threads,     *)
(*                interleaved statement by statement, consuming the        *)
(*                gestures get_input returns.                              *)
(***************************************************************************)
EXTENDS Integers, Sequences, FiniteSets, Bags, TLC

VARIABLES
    \* ---- the button lines and one activation of get_input -------------
    btn1,            \* TRUE when line BTN1 reads pressed (Pin.value() = 0)
    btn2,            \* TRUE when line BTN2 reads pressed
    dpc,             \* the statement get_input is at; "idle" between calls
    btn1_pressed,    \* local of get_input (line 117)
    btn2_pressed,    \* local of get_input (line 118)
    elapsed,         \* ticks_diff(ticks_ms(), press_start), in ms
    ret,             \* what the last call of get_input returned
    calls,           \* number of finished calls of get_input
    \* ---- observers of the decoder (history, not program state) --------
    prevGesture,     \* the previous call returned a gesture
    released,        \* both lines were released together since that return
    overlap,         \* a gesture was returned with no full release before it
    earlyRelease,    \* in the both-pressed branch a line was let go < 800 ms
    quiet,           \* no line was pressed when this call's debounce sleep ended
    bothDown,        \* both lines were pressed when that sleep ended
    \* ---- ProcessControl, SubprocessManager ------------------------------
    should_exit,     \* ProcessControl.should_exit (the exit flag)
    running,         \* SubprocessManager.running
    mon,             \* the bag of live monitor threads: [pc, action, stale]
    \* ---- the main thread ------------------------------------------------
    mpc,             \* where the main thread is: "loop" or inside execute_file
    action,          \* local of run(): the gesture being handled at a reset
    filepath,        \* argument of execute_file
    error_msg,       \* str(e) of the exception execute_file caught
    power,           \* "on", or "reset" once machine.reset() was called
    fs,              \* the file system the scripts see and change
    \* ---- CraneFlyOS, MenuSystem, FileBrowser ----------------------------
    mode,            \* 'menu', 'output', 'cbin'
    output_lines,
    scroll_offset,
    screensaver_active,
    menu_selected,   \* MenuSystem.selected_index
    current_path,    \* FileBrowser.current_path
    items,           \* FileBrowser.items
    selected_index,  \* FileBrowser.selected_index
    fb_scroll,       \* FileBrowser.scroll_offset
    \* ---- observers of the runs (history, not program state) ------------
    started,         \* the current run's monitor thread was started
    flag_src,        \* the gesture behind the flag: "clear", "fresh", "stale"
    observed,        \* last check_exit() of the task: "clear", "fresh", "stale"
    tapDecoded,      \* a monitor decoded BothTap while the task ran
    flagSetInRun,    \* a monitor set the flag while the task ran
    holdInRun,       \* a BothHold was performed while the task ran
    \* ---- observers of the lists (history, not program state) -----------
    streak,          \* consecutive next_item() calls on the list of the mode
    start,           \* the index that was selected when they began
    away             \* the last next_item() found the selection out of view

decVars == <<btn1, btn2, dpc, btn1_pressed, btn2_pressed, elapsed, ret, calls>>
obsVars == <<prevGesture, released, overlap, earlyRelease, quiet, bothDown>>
procVars == <<should_exit, running, mon>>
mainVars == <<mpc, action, filepath, error_msg, power, fs>>
uiVars == <<mode, output_lines, scroll_offset, screensaver_active, menu_selected,
            current_path, items, selected_index, fb_scroll>>
runVars == <<started, flag_src, observed, tapDecoded, flagSetInRun,
             holdInRun>>
listVars == <<streak, start, away>>
osVars == <<procVars, mainVars, uiVars, runVars, listVars>>
vars == <<decVars, obsVars, osVars>>

(***************************************************************************)
(* ButtonHandler                                                           *)
(***************************************************************************)
long_press_ms == 800
debounce_ms == 50
poll_ms == 10

\* The number of get_input calls one behaviour of SpecDecoder follows.
MaxCalls == 3

NoGesture == "None"
Gestures == {"btn1_short", "btn2_short", "btn1_hold_btn2_tap",
             "btn2_hold_btn1_tap", "both_short", "both_long"}

Min(a, b) == IF a < b THEN a ELSE b
Max(a, b) == IF a > b THEN a ELSE b

\* time.sleep_ms(ms) as seen by ticks_diff(ticks_ms(), press_start)
sleep_ms(ms) == elapsed' = elapsed + ms

\* `return g`: the call ends; the observers note whether the lines were
\* fully released since the gesture the previous call returned.
Return(g) ==
    /\ dpc' = "idle"
    /\ ret' = g
    /\ calls' = calls + 1
    /\ IF g = NoGesture
       THEN prevGesture' = FALSE /\ UNCHANGED <<released, overlap>>
       ELSE /\ prevGesture' = TRUE
            /\ overlap' = (overlap \/ (prevGesture /\ ~released))
            /\ released' = (~btn1 /\ ~btn2)
    /\ UNCHANGED <<earlyRelease, quiet, bothDown, osVars>>

\* The caller (CraneFlyOS.run line 768, monitor_exit_buttons line 329).
Call ==
    /\ dpc = "idle"
    /\ calls < MaxCalls
    /\ dpc' = "L117"
    /\ earlyRelease' = FALSE
    /\ quiet' = FALSE
    /\ bothDown' = FALSE
    /\ UNCHANGED <<btn1, btn2, btn1_pressed, btn2_pressed, elapsed, ret, calls,
                   prevGesture, released, overlap, osVars>>

\* line 117: btn1_pressed = not self.btn1.value()
L117 ==
    /\ dpc = "L117"
    /\ btn1_pressed' = btn1
    /\ dpc' = "L118"
    /\ UNCHANGED <<btn1, btn2, btn2_pressed, elapsed, ret, calls, obsVars, osVars>>

\* lines 118-121: btn2_pressed = not self.btn2.value(); neither: return None
L118 ==
    /\ dpc = "L118"
    /\ btn2_pressed' = btn2
    /\ IF ~btn1_pressed /\ ~btn2
       THEN Return(NoGesture) /\ UNCHANGED <<elapsed>>
       ELSE /\ dpc' = "L123"
            /\ UNCHANGED <<elapsed, ret, calls, obsVars, osVars>>
    /\ UNCHANGED <<btn1, btn2, btn1_pressed>>

\* lines 123-127, 140-141, 164-165: the debounce sleep, then the branch is
\* chosen from the samples taken BEFORE the sleep, and press_start is taken.
L123 ==
    /\ dpc = "L123"
    /\ elapsed' = 0
    /\ dpc' = IF btn1_pressed /\ btn2_pressed THEN "L129"
              ELSE IF btn1_pressed THEN "L143" ELSE "L167"
    /\ quiet' = (~btn1 /\ ~btn2)
    /\ bothDown' = (btn1 /\ btn2)
    /\ UNCHANGED <<btn1, btn2, btn1_pressed, btn2_pressed, ret, calls,
                   prevGesture, released, overlap, earlyRelease, osVars>>

\* lines 129-137: while either line is pressed; past the threshold go and
\* wait for the release (line 132), else sleep 10 ms.
L129 ==
    /\ dpc = "L129"
    /\ IF btn1 \/ btn2
       THEN /\ IF elapsed > long_press_ms
               THEN dpc' = "L132" /\ UNCHANGED elapsed
               ELSE dpc' = "L129" /\ sleep_ms(poll_ms)
            /\ UNCHANGED <<ret, calls, obsVars, osVars>>
       ELSE Return("both_short") /\ UNCHANGED <<elapsed>>
    /\ UNCHANGED <<btn1, btn2, btn1_pressed, btn2_pressed>>

\* A variant of L132 that waits for a further press before it returns.
L132_waits_for_press ==
    /\ dpc = "L132"
    /\ UNCHANGED <<dpc, ret, calls, obsVars, osVars>>
    /\ UNCHANGED <<btn1, btn2, btn1_pressed, btn2_pressed, elapsed>>

\* lines 132-134: wait until both lines are released, return 'both_long'
L132 ==
    /\ dpc = "L132"
    /\ IF btn1 \/ btn2
       THEN UNCHANGED <<dpc, ret, calls, obsVars, osVars>>
       ELSE Return("both_long")
    /\ UNCHANGED <<btn1, btn2, btn1_pressed, btn2_pressed, elapsed>>

\* The single-button branch for line A with partner B (lines 140-162 for
\* A = btn1, lines 164-186 for A = btn2).  held/partner are the levels of A
\* and B now; the statement labels are those of the btn1 copy.
\* line 143 / 167: while not self.A.value()
HoldLoop(at, body, after, held) ==
    /\ dpc = at
    /\ dpc' = IF held THEN body ELSE after
    /\ UNCHANGED <<btn1, btn2, btn1_pressed, btn2_pressed, elapsed, ret, calls,
                   obsVars, osVars>>

\* A variant of HoldBody that takes the partner's press after the
\* threshold as well: no break.
HoldBody_no_timeout(at, loop, tapWait, after, partner) ==
    /\ dpc = at
    /\ IF partner
       THEN dpc' = tapWait /\ UNCHANGED elapsed
       ELSE dpc' = loop /\ elapsed' = Min(elapsed + poll_ms, long_press_ms + poll_ms)
    /\ UNCHANGED <<btn1, btn2, btn1_pressed, btn2_pressed, ret, calls, obsVars, osVars>>

\* lines 145-146, 155-157 / 169-170, 179-181: partner pressed: debounce and
\* go wait for its release; else past the threshold: break; else sleep 10 ms.
HoldBody(at, loop, tapWait, after, partner) ==
    /\ dpc = at
    /\ IF partner
       THEN dpc' = tapWait /\ UNCHANGED elapsed
       ELSE IF elapsed > long_press_ms
            THEN dpc' = after /\ UNCHANGED elapsed
            ELSE dpc' = loop /\ sleep_ms(poll_ms)
    /\ UNCHANGED <<btn1, btn2, btn1_pressed, btn2_pressed, ret, calls, obsVars, osVars>>

\* lines 147-148, 150-151, 160-161 / 171-172, 174-175, 184-185:
\* while not self.X.value(): time.sleep_ms(10); then go on or return.
WaitRelease(at, level, next, result) ==
    /\ dpc = at
    /\ IF level
       THEN UNCHANGED <<dpc, ret, calls, obsVars, osVars>>
       ELSE IF result = NoGesture
            THEN dpc' = next /\ UNCHANGED <<ret, calls, obsVars, osVars>>
            ELSE Return(result)
    /\ UNCHANGED <<btn1, btn2, btn1_pressed, btn2_pressed, elapsed>>

L143 == HoldLoop("L143", "L145", "L160", btn1)
L145 == HoldBody("L145", "L143", "L147", "L160", btn2)
L147 == WaitRelease("L147", btn2, "L150", NoGesture)
L150 == WaitRelease("L150", btn1, "idle", "btn1_hold_btn2_tap")
L160 == WaitRelease("L160", btn1, "idle", "btn1_short")

L167 == HoldLoop("L167", "L169", "L184", btn2)
L169 == HoldBody("L169", "L167", "L171", "L184", btn1)
L171 == WaitRelease("L171", btn1, "L174", NoGesture)
L174 == WaitRelease("L174", btn2, "idle", "btn2_hold_btn1_tap")
L184 == WaitRelease("L184", btn2, "idle", "btn2_short")

get_input ==
    \/ L117 \/ L118 \/ L123 \/ L129 \/ L132
    \/ L143 \/ L145 \/ L147 \/ L150 \/ L160
    \/ L167 \/ L169 \/ L171 \/ L174 \/ L184

\* In the both-pressed branch, less than 800 ms after the first detection
\* (the debounce sleep included).
InBothWindow ==
    \/ dpc = "L123" /\ btn1_pressed /\ btn2_pressed
    \/ dpc = "L129" /\ elapsed + debounce_ms < long_press_ms

\* The lines change level at any moment, whatever the decoder is doing.
Press1 ==
    /\ ~btn1
    /\ btn1' = TRUE
    /\ UNCHANGED <<btn2, dpc, btn1_pressed, btn2_pressed, elapsed, ret, calls,
                   obsVars, osVars>>

Press2 ==
    /\ ~btn2
    /\ btn2' = TRUE
    /\ UNCHANGED <<btn1, dpc, btn1_pressed, btn2_pressed, elapsed, ret, calls,
                   obsVars, osVars>>

Release1 ==
    /\ btn1
    /\ btn1' = FALSE
    /\ released' = (released \/ ~btn2)
    /\ earlyRelease' = (earlyRelease \/ InBothWindow)
    /\ UNCHANGED <<btn2, dpc, btn1_pressed, btn2_pressed, elapsed, ret, calls,
                   prevGesture, overlap, quiet, bothDown, osVars>>

Release2 ==
    /\ btn2
    /\ btn2' = FALSE
    /\ released' = (released \/ ~btn1)
    /\ earlyRelease' = (earlyRelease \/ InBothWindow)
    /\ UNCHANGED <<btn1, dpc, btn1_pressed, btn2_pressed, elapsed, ret, calls,
                   prevGesture, overlap, quiet, bothDown, osVars>>

Lines == Press1 \/ Press2 \/ Release1 \/ Release2

InitDecoder ==
    /\ btn1 = FALSE
    /\ btn2 = FALSE
    /\ dpc = "idle"
    /\ btn1_pressed = FALSE
    /\ btn2_pressed = FALSE
    /\ elapsed = 0
    /\ ret = NoGesture
    /\ calls = 0
    /\ prevGesture = FALSE
    /\ released = TRUE
    /\ overlap = FALSE
    /\ earlyRelease = FALSE
    /\ quiet = FALSE
    /\ bothDown = FALSE

NextDecoder == Call \/ get_input \/ Lines

(***************************************************************************)
(* Strings, as Python computes on them                                     *)
(***************************************************************************)
\* The characters of the names, in code point order (Python's str order).
Alphabet == "./0123456789_abcdefghijklmnopqrstuvwxyz"

CharAt(s, i) == SubSeq(s, i, i)
CodePoint(c) == CHOOSE i \in 1..Len(Alphabet) : CharAt(Alphabet, i) = c

\* a < b for str
RECURSIVE StrLess(_, _)
StrLess(a, b) ==
    IF Len(b) = 0 THEN FALSE
    ELSE IF Len(a) = 0 THEN TRUE
    ELSE IF CharAt(a, 1) = CharAt(b, 1)
         THEN StrLess(SubSeq(a, 2, Len(a)), SubSeq(b, 2, Len(b)))
         ELSE CodePoint(CharAt(a, 1)) < CodePoint(CharAt(b, 1))

\* sorted(entries)
RECURSIVE sorted(_)
sorted(S) ==
    IF S = {} THEN <<>>
    ELSE LET m == CHOOSE x \in S : \A y \in S \ {x} : StrLess(x, y)
         IN <<m>> \o sorted(S \ {m})

\* s.endswith(suffix)
endswith(s, suffix) ==
    /\ Len(s) >= Len(suffix)
    /\ SubSeq(s, Len(s) - Len(suffix) + 1, Len(s)) = suffix

\* s.rstrip("/")
RECURSIVE rstrip(_)
rstrip(s) ==
    IF Len(s) > 0 /\ CharAt(s, Len(s)) = "/"
    THEN rstrip(SubSeq(s, 1, Len(s) - 1)) ELSE s

\* position of the last "/" of s, 0 when there is none
RECURSIVE LastSlash(_, _)
LastSlash(s, i) ==
    IF i = 0 THEN 0
    ELSE IF CharAt(s, i) = "/" THEN i ELSE LastSlash(s, i - 1)

\* s[a:b] of Python (0-based, end exclusive, clipped)
Slice(s, a, b) == SubSeq(s, a + 1, Min(b, Len(s)))

(***************************************************************************)
(* The file system (os.listdir)                                            *)
(***************************************************************************)
\* The directories of the device and what each holds.  "pruned" is the file
\* system after a script removed /tools; "big" holds more entries than the
\* display has lines and no script; "bare" holds the launcher only.
Tree(f) ==
    IF f = "full"
    THEN [p \in {"/", "/tools"} |->
            IF p = "/" THEN {"a.py", "main.py", "notes.txt", "tools"}
            ELSE {"b.py", "main.py"}]
    ELSE IF f = "big"
    THEN [p \in {"/", "/zlib"} |->
            IF p = "/" THEN {"g.txt", "zlib", "main.py", "b.txt", "e.txt",
                            "a.txt", "d.txt", "f.txt", "c.txt"}
            ELSE {"n3.txt", "main.py", "n1.txt", "n6.txt", "n2.txt", "n5.txt",
                  "n4.txt"}]
    ELSE IF f = "bare"
    THEN [p \in {"/"} |-> {"main.py"}]
    ELSE [p \in {"/"} |-> {"a.py", "main.py", "notes.txt"}]

\* os.listdir(path) succeeds on a directory and raises OSError otherwise
IsDir(f, path) == path \in DOMAIN Tree(f)
listdir(f, path) == Tree(f)[path]

(***************************************************************************)
(* FileBrowser                                                             *)
(***************************************************************************)
max_lines == 6

\* lines 445-452
get_parent_path(path) ==
    IF path = "/" THEN "/"
    ELSE LET s == rstrip(path)
             i == LastSlash(s, Len(s))
         IN IF i = 0 THEN "/"
            ELSE IF i = 1 THEN "/" ELSE SubSeq(s, 1, i - 1)

\* line 424
full_path(path, entry) == path \o (IF path = "/" THEN "" ELSE "/") \o entry

\* A variant of scan that lists the launcher like any other file.
RECURSIVE scan_keeps_launcher(_, _, _)
scan_keeps_launcher(f, path, entries) ==
    IF entries = <<>> THEN <<>>
    ELSE LET entry == Head(entries)
             full == full_path(path, entry)
         IN <<[name |-> entry,
               type |-> IF IsDir(f, full) THEN "dir" ELSE "file",
               path |-> full]>> \o scan_keeps_launcher(f, path, Tail(entries))

\* lines 419-432: one item per sorted entry, main.py skipped
RECURSIVE scan(_, _, _)
scan(f, path, entries) ==
    IF entries = <<>> THEN <<>>
    ELSE LET entry == Head(entries)
             full == full_path(path, entry)
             rest == scan(f, path, Tail(entries))
         IN IF entry = "main.py" THEN rest
            ELSE <<[name |-> entry,
                    type |-> IF IsDir(f, full) THEN "dir" ELSE "file",
                    path |-> full]>> \o rest

\* the text of the OSError os.listdir raised
ListError == "[Errno 2] ENOENT"

\* A variant of refreshed that keeps the parent entry before the error.
refreshed_error_after_parent(f, path) ==
    (IF path # "/"
     THEN <<[name |-> "..", type |-> "parent", path |-> get_parent_path(path)]>>
     ELSE <<>>)
    \o (IF IsDir(f, path) THEN scan(f, path, sorted(listdir(f, path)))
        ELSE <<[name |-> "Error: " \o ListError, type |-> "error", path |-> ""]>>)

\* lines 416-439: the items refresh_items builds
refreshed(f, path) ==
    IF IsDir(f, path)
    THEN (IF path # "/"
          THEN <<[name |-> "..", type |-> "parent", path |-> get_parent_path(path)]>>
          ELSE <<>>) \o scan(f, path, sorted(listdir(f, path)))
    ELSE <<[name |-> "Error: " \o ListError, type |-> "error", path |-> ""]>>

\* lines 414-443, as an update of the browser
refresh_items(path) ==
    /\ current_path' = path
    /\ items' = refreshed(fs, path)
    /\ selected_index' = 0
    /\ fb_scroll' = 0

\* A variant of next_item that leaves the viewport where it is.
next_item_no_autoscroll ==
    /\ IF items # <<>>
       THEN selected_index' = (selected_index + 1) % Len(items)
       ELSE UNCHANGED selected_index
    /\ UNCHANGED <<current_path, items, fb_scroll>>

\* A variant of next_item that stops at the last item.
next_item_saturating ==
    /\ IF items # <<>>
       THEN LET sel == Min(selected_index + 1, Len(items) - 1)
            IN /\ selected_index' = sel
               /\ fb_scroll' = IF sel < fb_scroll THEN sel
                               ELSE IF sel >= fb_scroll + max_lines
                                    THEN sel - max_lines + 1
                                    ELSE fb_scroll
       ELSE UNCHANGED <<selected_index, fb_scroll>>
    /\ UNCHANGED <<current_path, items>>

\* lines 471-479
next_item ==
    /\ IF items # <<>>
       THEN LET sel == (selected_index + 1) % Len(items)
            IN /\ selected_index' = sel
               /\ fb_scroll' = IF sel < fb_scroll THEN sel
                               ELSE IF sel >= fb_scroll + max_lines
                                    THEN sel - max_lines + 1
                                    ELSE fb_scroll
       ELSE UNCHANGED <<selected_index, fb_scroll>>
    /\ UNCHANGED <<current_path, items>>

\* A variant of scroll_down clamped at the length of the list.
scroll_down_to_length ==
    /\ fb_scroll' = Min(fb_scroll + 1, Len(items))
    /\ UNCHANGED <<current_path, items, selected_index>>

\* lines 481-484
scroll_down ==
    /\ fb_scroll' = Min(fb_scroll + 1, Max(0, Len(items) - max_lines))
    /\ UNCHANGED <<current_path, items, selected_index>>

\* lines 486-488
scroll_up ==
    /\ fb_scroll' = Max(0, fb_scroll - 1)
    /\ UNCHANGED <<current_path, items, selected_index>>

\* lines 490-494; the value None is the record of type "none"
NoItem == [name |-> "", type |-> "none", path |-> ""]
get_selected_item ==
    IF items # <<>> /\ 0 <= selected_index /\ selected_index < Len(items)
    THEN items[selected_index + 1] ELSE NoItem

(***************************************************************************)
(* MenuSystem, Commands                                                    *)
(***************************************************************************)
menu_items == <<"cfetch", "ctop", "cbin", "reboot">>

\* line 536
get_selected == menu_items[menu_selected + 1]

\* lines 547-571; the identifier, clock and temperature read as they are here
cfetch == <<"     CraneFly OS", "(\\0/)     v1.0.1", "(/|\\)    ", "        ", "",
            "ID:", "e6614103e7", "Freq: 125MHz", "Temp: 27.0C", "RAM: 264KB">>

\* lines 574-599
ctop == <<" === System === ", "", "Uptime:", "  0h 1m 5s", "", "Memory:",
          "Total: 192064B", "Used:  9600B", "Free:  182464B", "Usage: 4%">>

(***************************************************************************)
(* ProcessControl                                                          *)
(***************************************************************************)
\* Each classmethod runs under ProcessControl.lock: one atomic step.
\* lines 29-32; t is the monitor thread calling
request_exit(t) ==
    /\ should_exit' = TRUE
    /\ flag_src' = IF t.stale THEN "stale" ELSE "fresh"

\* lines 34-37
clear_exit ==
    /\ should_exit' = FALSE
    /\ flag_src' = "clear"

\* lines 39-42
check_exit == should_exit

(***************************************************************************)
(* SubprocessManager                                                       *)
(***************************************************************************)
\* The number of monitor threads alive at once that a behaviour follows;
\* beyond it start_new_thread raises (lines 367-369).
MaxMonitors == 2

\* A monitor thread that start_new_thread has just started: about to test
\* `while self.running` (line 328).  `stale` says that the gesture in
\* `action` was performed before the clear_exit() of line 346 that began
\* the current run.
NewThread == [pc |-> "L328", action |-> NoGesture, stale |-> FALSE]

Monitors == BagToSet(mon)
Replace(t, u) == (mon (-) SetToBag({t})) (+) SetToBag({u})
Remove(t) == mon (-) SetToBag({t})

\* machine.reset(): nothing runs afterwards
machine_reset == power' = "reset"

\* The monitor threads after a step: gone with everything else when the
\* step called machine.reset().
AfterStep(after) == IF power' = "reset" THEN EmptyBag ELSE after

\* A monitor is inside get_input and has not resolved a gesture yet.
Polling(t) == t.pc = "L329" /\ t.action = NoGesture

\* The user performs one complete gesture g.  Every monitor that is inside
\* get_input at that time resolves it (ButtonHandler.get_input: one gesture
\* per physical interaction); a thread that is elsewhere never sees it.  A
\* gesture the monitor ignores (lines 329-337: neither 'both_short' nor
\* 'both_long') sends it through sleep_ms(50) back to line 328.
Heard(g) ==
    BagOfAll(LAMBDA t : IF ~Polling(t) THEN t
                        ELSE IF g \in {"both_short", "both_long"}
                             THEN [t EXCEPT !.action = g]
                             ELSE [t EXCEPT !.pc = "L328"],
             mon)

\* A gesture performed while the main thread is inside execute_file.
UserGesture(g) ==
    /\ power = "on"
    /\ mpc # "loop"
    /\ mon' = Heard(g)
    /\ tapDecoded' = (tapDecoded \/
                        (/\ g = "both_short" /\ mpc = "L384" /\ started
                         /\ \E t \in Monitors : Polling(t)))
    /\ holdInRun' = (holdInRun \/
                        (/\ g = "both_long" /\ mpc = "L384" /\ started
                         /\ \/ \E t \in Monitors : Polling(t)
                            \/ mon = EmptyBag))
    /\ UNCHANGED <<should_exit, running, mainVars, uiVars, started, flag_src,
                   observed, flagSetInRun, decVars, obsVars, listVars>>

\* monitor_exit_buttons, line 328: while self.running
MonitorLoop(t) ==
    /\ power = "on"
    /\ t.pc = "L328"
    /\ mon' = IF running THEN Replace(t, [t EXCEPT !.pc = "L329"]) ELSE Remove(t)
    /\ UNCHANGED <<should_exit, running, mainVars, uiVars, runVars, decVars, obsVars, listVars>>

\* lines 329-337 when get_input found no button pressed: sleep 50 ms, loop
MonitorIdle(t) ==
    /\ power = "on"
    /\ Polling(t)
    /\ mon' = Replace(t, [t EXCEPT !.pc = "L328"])
    /\ UNCHANGED <<should_exit, running, mainVars, uiVars, runVars, decVars, obsVars, listVars>>

\* A variant of MonitorAct whose 'both_short' interrupts the task as well.
MonitorAct_interrupts(t) ==
    /\ power = "on"
    /\ t.pc = "L329"
    /\ t.action # NoGesture
    /\ IF t.action = "both_short"
       THEN /\ request_exit(t)
            /\ mon' = Remove(t)
            /\ flagSetInRun' = (flagSetInRun \/ mpc = "L384")
            /\ mpc' = IF mpc = "L384" THEN "L393" ELSE mpc
            /\ UNCHANGED power
       ELSE /\ machine_reset
            /\ mon' = AfterStep(mon)
            /\ UNCHANGED <<should_exit, flag_src, flagSetInRun, mpc>>
    /\ UNCHANGED <<running, action, filepath, error_msg, fs, uiVars,
                   started, observed, tapDecoded, holdInRun,
                   decVars, obsVars, listVars>>

\* lines 329-336 when get_input returned 'both_short' or 'both_long'
MonitorAct(t) ==
    /\ power = "on"
    /\ t.pc = "L329"
    /\ t.action # NoGesture
    /\ IF t.action = "both_short"
       THEN /\ request_exit(t)
            /\ mon' = Remove(t)
            /\ flagSetInRun' = (flagSetInRun \/ mpc = "L384")
            /\ UNCHANGED power
       ELSE /\ machine_reset
            /\ mon' = AfterStep(mon)
            /\ UNCHANGED <<should_exit, flag_src, flagSetInRun>>
    /\ UNCHANGED <<running, mpc, action, filepath, error_msg, fs, uiVars,
                   started, observed, tapDecoded, holdInRun,
                   decVars, obsVars, listVars>>

\* The results execute_file returns (lines 342, 390, 395, 400).
NotPy == <<"Error:", "Not a .py file">>
ExitedNormally == <<"Process exited", "normally">>
Interrupted == <<"Process", "interrupted">>
ExecError(msg) ==
    <<"Exec Error:", Slice(msg, 0, 40),
      IF Len(msg) > 40 THEN Slice(msg, 40, 80) ELSE "">>

\* str(e) of what a script, or open(), raises
OpenError == "[Errno 2] ENOENT"
ErrorMsgs == {"name 'undefined_function_name' isn't defined"}

\* A step of execute_file that touches nothing shared.
Goto(at, to) ==
    /\ power = "on"
    /\ mpc = at
    /\ mpc' = to

\* lines 341-342
EF_CheckPy ==
    /\ Goto("L341", IF endswith(filepath, ".py") THEN "L346" ELSE "L342")
    /\ UNCHANGED <<procVars, action, filepath, error_msg, power, fs, uiVars,
                   runVars, decVars, obsVars, listVars>>

\* line 346: ProcessControl.clear_exit(); a new run begins
EF_ClearAtStart ==
    /\ Goto("L346", "L347")
    /\ clear_exit
    /\ mon' = BagOfAll(LAMBDA t : [t EXCEPT !.stale = (t.action # NoGesture)],
                       mon)
    /\ UNCHANGED <<started, observed, tapDecoded, flagSetInRun, holdInRun>>
    /\ UNCHANGED <<running, action, filepath, error_msg, power, fs, uiVars,
                   decVars, obsVars, listVars>>

\* lines 347-362: self.running = True, the instruction screen, sleep(2)
EF_SetRunning ==
    /\ Goto("L347", "L366")
    /\ running' = TRUE
    /\ UNCHANGED <<should_exit, mon, action, filepath, error_msg, power, fs,
                   uiVars, runVars, decVars, obsVars, listVars>>

\* lines 365-369: start_new_thread; when it raises, go on without a monitor
EF_StartMonitor ==
    /\ Goto("L366", "L372")
    /\ \/ /\ BagCardinality(mon) < MaxMonitors
          /\ mon' = mon (+) SetToBag({NewThread})
          /\ started' = TRUE
       \/ UNCHANGED <<mon, started>>
    /\ UNCHANGED <<should_exit, running, action, filepath, error_msg, power, fs,
                   uiVars, flag_src, observed, tapDecoded, flagSetInRun,
                   holdInRun, decVars, obsVars, listVars>>

\* The task is over: the observers of what happened while it ran rest.
TaskOver ==
    /\ started' = FALSE
    /\ observed' = "clear"
    /\ flagSetInRun' = FALSE
    /\ holdInRun' = FALSE

\* lines 372-373: open and read the file; OSError goes to line 396
EF_Open ==
    /\ \E ok \in BOOLEAN :
          IF ok
          THEN Goto("L372", "L384") /\ UNCHANGED <<error_msg, runVars>>
          ELSE /\ Goto("L372", "L397")
               /\ error_msg' = OpenError
               /\ TaskOver
               /\ UNCHANGED <<flag_src, tapDecoded>>
    /\ UNCHANGED <<procVars, action, filepath, power, fs, uiVars, decVars,
                   obsVars, listVars>>

\* line 384, exec(code, namespace): the script calls check_exit()
TaskPoll ==
    /\ power = "on"
    /\ mpc = "L384"
    /\ observed' = IF check_exit THEN flag_src ELSE "clear"
    /\ UNCHANGED <<procVars, mainVars, uiVars, started, flag_src, tapDecoded,
                   flagSetInRun, holdInRun, decVars, obsVars, listVars>>

\* line 384: the script removes the directory /tools
TaskRemoveDir ==
    /\ power = "on"
    /\ mpc = "L384"
    /\ fs = "full"
    /\ fs' = "pruned"
    /\ UNCHANGED <<procVars, mpc, action, filepath, error_msg, power, uiVars,
                   runVars, decVars, obsVars, listVars>>

\* line 384: the script ends: it returns, or raises KeyboardInterrupt
\* (line 392), an Exception (line 396), or SystemExit, a BaseException no
\* handler of execute_file or of the main loop catches.
Ends == {"normally", "KeyboardInterrupt", "Exception", "SystemExit"}
TaskEnd(how) ==
    /\ how \in Ends
    /\ Goto("L384", CASE how = "normally" -> "L387"
                      [] how = "KeyboardInterrupt" -> "L393"
                      [] how = "Exception" -> "L397"
                      [] how = "SystemExit" -> "crashed")
    /\ IF how = "Exception"
       THEN \E msg \in ErrorMsgs : error_msg' = msg
       ELSE UNCHANGED error_msg
    /\ TaskOver
    /\ UNCHANGED <<procVars, action, filepath, power, fs, uiVars, flag_src,
                   tapDecoded, decVars, obsVars, listVars>>

\* lines 387, 393, 397: self.running = False
EF_ClearRunning(at, to) ==
    /\ Goto(at, to)
    /\ running' = FALSE
    /\ UNCHANGED <<should_exit, mon, action, filepath, error_msg, power, fs,
                   uiVars, runVars, decVars, obsVars, listVars>>

\* lines 388, 394, 398: ProcessControl.clear_exit()
EF_ClearAtEnd(at, to) ==
    /\ Goto(at, to)
    /\ clear_exit
    /\ UNCHANGED <<running, mon, action, filepath, error_msg, power, fs, uiVars,
                   started, observed, tapDecoded, flagSetInRun, holdInRun,
                   decVars, obsVars, listVars>>

\* The call is over: its locals are gone and the observers of the run rest.
EndOfRun ==
    /\ TaskOver
    /\ tapDecoded' = FALSE

\* A variant of os_execute_file that keeps the mode the browser had.
os_execute_file_keeps_mode(at, result) ==
    /\ Goto(at, "loop")
    /\ output_lines' = result
    /\ scroll_offset' = 0
    /\ filepath' = ""
    /\ error_msg' = ""
    /\ EndOfRun
    /\ UNCHANGED <<procVars, action, power, fs, mode, screensaver_active,
                   menu_selected, current_path, items, selected_index, fb_scroll,
                   flag_src, decVars, obsVars, listVars>>

\* CraneFlyOS.execute_file, lines 689-692, with the return of
\* SubprocessManager.execute_file (lines 342, 390, 395, 400)
os_execute_file(at, result) ==
    /\ Goto(at, "loop")
    /\ output_lines' = result
    /\ scroll_offset' = 0
    /\ mode' = "output"
    /\ filepath' = ""
    /\ error_msg' = ""
    /\ EndOfRun
    /\ UNCHANGED <<procVars, action, power, fs, screensaver_active,
                   menu_selected, current_path, items, selected_index, fb_scroll,
                   flag_src, decVars, obsVars, listVars>>

EF_Cleanup ==
    \/ EF_ClearRunning("L387", "L388") \/ EF_ClearAtEnd("L388", "L390")
    \/ EF_ClearRunning("L393", "L394") \/ EF_ClearAtEnd("L394", "L395")
    \/ EF_ClearRunning("L397", "L398") \/ EF_ClearAtEnd("L398", "L400")

\* lines 342 and 689-692: the rejection is shown
EF_Reject == os_execute_file("L342", NotPy)

EF_Return ==
    \/ EF_Reject
    \/ os_execute_file("L390", ExitedNormally)
    \/ os_execute_file("L395", Interrupted)
    \/ os_execute_file("L400", ExecError(error_msg))

execute_file ==
    \/ EF_CheckPy \/ EF_ClearAtStart \/ EF_SetRunning \/ EF_StartMonitor
    \/ EF_Open \/ EF_Cleanup \/ EF_Return

(***************************************************************************)
(* CraneFlyOS                                                              *)
(***************************************************************************)
\* What a handler may change.
handled == <<mode, output_lines, scroll_offset, menu_selected, current_path,
             items, selected_index, fb_scroll, mpc, filepath, power>>

show_text(lines) ==
    /\ output_lines' = lines
    /\ scroll_offset' = 0
    /\ mode' = "output"
    /\ UNCHANGED <<menu_selected, current_path, items, selected_index, fb_scroll,
                   mpc, filepath, power>>

\* A variant of execute_command whose 'reboot' comes back with the text
\* of Commands.reboot.
execute_command_reboot_returns(cmd_name) ==
    IF cmd_name = "cfetch" THEN show_text(cfetch)
    ELSE IF cmd_name = "ctop" THEN show_text(ctop)
    ELSE IF cmd_name = "cbin"
    THEN /\ refresh_items(current_path)
         /\ mode' = "cbin"
         /\ UNCHANGED <<output_lines, scroll_offset, menu_selected, mpc, filepath,
                        power>>
    ELSE IF cmd_name = "reboot" THEN show_text(<<"rebooting...">>)
    ELSE show_text(<<"Unknown: " \o cmd_name>>)

\* lines 664-685
execute_command(cmd_name) ==
    IF cmd_name = "cfetch" THEN show_text(cfetch)
    ELSE IF cmd_name = "ctop" THEN show_text(ctop)
    ELSE IF cmd_name = "cbin"
    THEN /\ refresh_items(current_path)
         /\ mode' = "cbin"
         /\ UNCHANGED <<output_lines, scroll_offset, menu_selected, mpc, filepath,
                        power>>
    ELSE IF cmd_name = "reboot"
    THEN /\ machine_reset
         /\ UNCHANGED <<mode, output_lines, scroll_offset, menu_selected,
                        current_path, items, selected_index, fb_scroll, mpc,
                        filepath>>
    ELSE show_text(<<"Unknown: " \o cmd_name>>)

\* lines 698-711
handle_menu_input(g) ==
    IF g = "btn1_short"
    THEN /\ menu_selected' = (menu_selected + 1) % Len(menu_items)
         /\ UNCHANGED <<mode, output_lines, scroll_offset, current_path, items,
                        selected_index, fb_scroll, mpc, filepath, power>>
    ELSE IF g = "btn2_short" THEN execute_command(get_selected)
    ELSE IF g = "both_long"
    THEN /\ machine_reset
         /\ UNCHANGED <<mode, output_lines, scroll_offset, menu_selected,
                        current_path, items, selected_index, fb_scroll, mpc,
                        filepath>>
    ELSE UNCHANGED handled

\* A variant of handle_output_input without the 'both_long' branch.
handle_output_input_no_reset(g) ==
    IF g = "btn1_short" \/ g = "btn2_short"
    THEN /\ mode' = "menu"
         /\ UNCHANGED <<output_lines, scroll_offset, menu_selected, current_path,
                        items, selected_index, fb_scroll, mpc, filepath, power>>
    ELSE IF g = "btn1_hold_btn2_tap"
    THEN /\ scroll_offset' = Min(scroll_offset + 1,
                                 Max(0, Len(output_lines) - max_lines))
         /\ UNCHANGED <<mode, output_lines, menu_selected, current_path, items,
                        selected_index, fb_scroll, mpc, filepath, power>>
    ELSE IF g = "btn2_hold_btn1_tap"
    THEN /\ scroll_offset' = Max(0, scroll_offset - 1)
         /\ UNCHANGED <<mode, output_lines, menu_selected, current_path, items,
                        selected_index, fb_scroll, mpc, filepath, power>>
    ELSE UNCHANGED handled

\* A variant of handle_output_input whose 'btn2_short' opens the browser.
handle_output_input_btn2_browses(g) ==
    IF g = "btn1_short"
    THEN /\ mode' = "menu"
         /\ UNCHANGED <<output_lines, scroll_offset, menu_selected, current_path,
                        items, selected_index, fb_scroll, mpc, filepath, power>>
    ELSE IF g = "btn2_short"
    THEN /\ mode' = "cbin"
         /\ UNCHANGED <<output_lines, scroll_offset, menu_selected, current_path,
                        items, selected_index, fb_scroll, mpc, filepath, power>>
    ELSE IF g = "btn1_hold_btn2_tap"
    THEN /\ scroll_offset' = Min(scroll_offset + 1,
                                 Max(0, Len(output_lines) - max_lines))
         /\ UNCHANGED <<mode, output_lines, menu_selected, current_path, items,
                        selected_index, fb_scroll, mpc, filepath, power>>
    ELSE IF g = "btn2_hold_btn1_tap"
    THEN /\ scroll_offset' = Max(0, scroll_offset - 1)
         /\ UNCHANGED <<mode, output_lines, menu_selected, current_path, items,
                        selected_index, fb_scroll, mpc, filepath, power>>
    ELSE IF g = "both_long"
    THEN /\ machine_reset
         /\ UNCHANGED <<mode, output_lines, scroll_offset, menu_selected,
                        current_path, items, selected_index, fb_scroll, mpc,
                        filepath>>
    ELSE UNCHANGED handled

\* lines 713-729
handle_output_input(g) ==
    IF g = "btn1_short" \/ g = "btn2_short"
    THEN /\ mode' = "menu"
         /\ UNCHANGED <<output_lines, scroll_offset, menu_selected, current_path,
                        items, selected_index, fb_scroll, mpc, filepath, power>>
    ELSE IF g = "btn1_hold_btn2_tap"
    THEN /\ scroll_offset' = Min(scroll_offset + 1,
                                 Max(0, Len(output_lines) - max_lines))
         /\ UNCHANGED <<mode, output_lines, menu_selected, current_path, items,
                        selected_index, fb_scroll, mpc, filepath, power>>
    ELSE IF g = "btn2_hold_btn1_tap"
    THEN /\ scroll_offset' = Max(0, scroll_offset - 1)
         /\ UNCHANGED <<mode, output_lines, menu_selected, current_path, items,
                        selected_index, fb_scroll, mpc, filepath, power>>
    ELSE IF g = "both_long"
    THEN /\ machine_reset
         /\ UNCHANGED <<mode, output_lines, scroll_offset, menu_selected,
                        current_path, items, selected_index, fb_scroll, mpc,
                        filepath>>
    ELSE UNCHANGED handled

\* lines 496-510 with lines 736-745: enter the directory, or hand the file
\* to execute_file (the main thread goes to line 341)
enter_selected ==
    LET item == get_selected_item
    IN IF item.type = "dir" \/ item.type = "parent"
       THEN /\ refresh_items(item.path)
            /\ UNCHANGED <<mode, output_lines, scroll_offset, menu_selected, mpc,
                           filepath, power>>
       ELSE IF item.type = "file"
       THEN /\ filepath' = item.path
            /\ mpc' = "L341"
            /\ UNCHANGED <<mode, output_lines, scroll_offset, menu_selected,
                           current_path, items, selected_index, fb_scroll, power>>
       ELSE UNCHANGED handled

\* A variant of handle_cbin_input whose 'both_short' also goes back to the
\* root directory.
handle_cbin_input_back_to_root(g) ==
    IF g = "btn1_short"
    THEN /\ next_item
         /\ UNCHANGED <<mode, output_lines, scroll_offset, menu_selected, mpc,
                        filepath, power>>
    ELSE IF g = "btn2_short" THEN enter_selected
    ELSE IF g = "btn1_hold_btn2_tap"
    THEN /\ scroll_down
         /\ UNCHANGED <<mode, output_lines, scroll_offset, menu_selected, mpc,
                        filepath, power>>
    ELSE IF g = "btn2_hold_btn1_tap"
    THEN /\ scroll_up
         /\ UNCHANGED <<mode, output_lines, scroll_offset, menu_selected, mpc,
                        filepath, power>>
    ELSE IF g = "both_short"
    THEN /\ mode' = "menu"
         /\ refresh_items("/")
         /\ UNCHANGED <<output_lines, scroll_offset, menu_selected, mpc,
                        filepath, power>>
    ELSE IF g = "both_long"
    THEN /\ machine_reset
         /\ UNCHANGED <<mode, output_lines, scroll_offset, menu_selected,
                        current_path, items, selected_index, fb_scroll, mpc,
                        filepath>>
    ELSE UNCHANGED handled

\* lines 731-756
handle_cbin_input(g) ==
    IF g = "btn1_short"
    THEN /\ next_item
         /\ UNCHANGED <<mode, output_lines, scroll_offset, menu_selected, mpc,
                        filepath, power>>
    ELSE IF g = "btn2_short" THEN enter_selected
    ELSE IF g = "btn1_hold_btn2_tap"
    THEN /\ scroll_down
         /\ UNCHANGED <<mode, output_lines, scroll_offset, menu_selected, mpc,
                        filepath, power>>
    ELSE IF g = "btn2_hold_btn1_tap"
    THEN /\ scroll_up
         /\ UNCHANGED <<mode, output_lines, scroll_offset, menu_selected, mpc,
                        filepath, power>>
    ELSE IF g = "both_short"
    THEN /\ mode' = "menu"
         /\ UNCHANGED <<output_lines, scroll_offset, menu_selected, current_path,
                        items, selected_index, fb_scroll, mpc, filepath, power>>
    ELSE IF g = "both_long"
    THEN /\ machine_reset
         /\ UNCHANGED <<mode, output_lines, scroll_offset, menu_selected,
                        current_path, items, selected_index, fb_scroll, mpc,
                        filepath>>
    ELSE UNCHANGED handled

\* CraneFlyOS.run, lines 763-793, one iteration in which get_input returned
\* the gesture g the user performed: the screensaver is dismissed, then the
\* mode's handler runs.  machine.reset() never returns: `action` stays g.
run_iteration(g) ==
    /\ power = "on"
    /\ mpc = "loop"
    /\ screensaver_active' = FALSE
    /\ IF mode = "menu" THEN handle_menu_input(g)
       ELSE IF mode = "output" THEN handle_output_input(g)
       ELSE handle_cbin_input(g)
    /\ mon' = AfterStep(Heard(g))
    /\ action' = IF power' = "reset" THEN g ELSE NoGesture
    /\ UNCHANGED <<should_exit, running, error_msg, fs, runVars, decVars, obsVars>>

\* The iteration, in the specification of the whole system.
MainGesture(g) == run_iteration(g) /\ UNCHANGED listVars

\* The iteration, with the observers of the lists: a next_item() call
\* (lines 471-479, 530-532) on the list of the mode extends the streak, any
\* other gesture ends it.
Browse(g) ==
    /\ run_iteration(g)
    /\ LET cur == IF mode = "menu" THEN menu_selected ELSE selected_index
           N == IF mode = "menu" THEN Len(menu_items) ELSE Len(items)
       IN IF g = "btn1_short" /\ mode \in {"menu", "cbin"} /\ N > 0
          THEN /\ streak' = IF streak >= N THEN 1 ELSE streak + 1
               /\ start' = IF streak >= N THEN cur ELSE start
               /\ away' = (/\ mode = "cbin"
                           /\ ~(/\ fb_scroll <= selected_index
                                /\ selected_index < fb_scroll + max_lines))
          ELSE /\ streak' = 0
               /\ start' = IF mode' = "menu" THEN menu_selected'
                            ELSE selected_index'
               /\ away' = FALSE

\* lines 643-648 and 775-778: an iteration without input after 30 s without
\* any: the screensaver comes up (in menu mode only)
MainIdle ==
    /\ power = "on"
    /\ mpc = "loop"
    /\ mode = "menu"
    /\ ~screensaver_active
    /\ screensaver_active' = TRUE
    /\ UNCHANGED <<procVars, mainVars, mode, output_lines, scroll_offset,
                   menu_selected, current_path, items, selected_index, fb_scroll,
                   runVars, decVars, obsVars, listVars>>

InitFS(f) ==
    /\ should_exit = FALSE
    /\ running = FALSE
    /\ mon = EmptyBag
    /\ mpc = "loop"
    /\ action = NoGesture
    /\ filepath = ""
    /\ error_msg = ""
    /\ power = "on"
    /\ fs = f
    /\ mode = "menu"
    /\ output_lines = <<>>
    /\ scroll_offset = 0
    /\ screensaver_active = FALSE
    /\ menu_selected = 0
    /\ current_path = "/"
    /\ items = refreshed(f, "/")
    /\ selected_index = 0
    /\ fb_scroll = 0
    /\ started = FALSE
    /\ flag_src = "clear"
    /\ observed = "clear"
    /\ tapDecoded = FALSE
    /\ flagSetInRun = FALSE
    /\ holdInRun = FALSE
    /\ streak = 0
    /\ start = 0
    /\ away = FALSE

InitOS == InitFS("full")

\* The user interface alone, on a file system without scripts.
InitUI == InitDecoder /\ \E f \in {"big", "bare"} : InitFS(f)

Init == InitDecoder /\ InitOS

Next ==
    \/ \E g \in Gestures : UserGesture(g)
    \/ \E g \in Gestures : MainGesture(g)
    \/ MainIdle
    \/ execute_file
    \/ TaskPoll
    \/ TaskRemoveDir
    \/ \E how \in Ends : TaskEnd(how)
    \/ \E t \in Monitors : MonitorLoop(t)
    \/ \E t \in Monitors : MonitorIdle(t)
    \/ \E t \in Monitors : MonitorAct(t)

Spec == Init /\ [][Next]_vars

SpecDecoder == Init /\ [][NextDecoder]_vars

\* The thread that called get_input keeps running: a statement that can be
\* executed is executed.  Nothing is assumed of the caller or of the lines.
SpecDecoderLive == Init /\ [][NextDecoder]_vars /\ WF_vars(get_input)

NextUI ==
    \/ \E g \in Gestures : Browse(g)
    \/ MainIdle
    \/ EF_CheckPy
    \/ EF_Reject

SpecUI == InitUI /\ [][NextUI]_vars

(***************************************************************************)
(* Properties of ButtonHandler.get_input (SpecDecoder)                     *)
(***************************************************************************)
\* C1: get_input never returns a gesture in two consecutive calls without a
\* moment between the two returns at which both lines were released
\* together.
C1_FullReleaseBetweenGestures == ~overlap

\* C2: get_input returns 'both_long' only when no line was let go in the
\* both-pressed branch less than 800 ms after the first detection.
C2_HoldNeedsBothLines == (dpc = "idle" /\ ret = "both_long") => ~earlyRelease

(***************************************************************************)
(* Properties of the operating system (Spec)                               *)
(***************************************************************************)
\* Where SubprocessManager.execute_file begins, and where it returns.
CallBegins == mpc = "L341"
CallReturns == mpc \in {"L342", "L390", "L395", "L400"}
TaskReturns == mpc \in {"L390", "L395", "L400"}

\* C3: the exit flag is clear when a call of execute_file begins and when
\* it returns, whichever branch returns.
C3_FlagClearAtCallAndReturn == (CallBegins \/ CallReturns) => ~should_exit

\* C4: the task never reads the flag as set because of a gesture that was
\* performed before its own run cleared the flag.
C4_NoStaleCancellation == observed # "stale"

\* C5: once a monitor has set the flag while the task runs, the flag stays
\* set as long as the task runs; and when a BothTap was decoded while the
\* task ran, the flag is clear when execute_file returns.
C5_FlagHeldThenClear ==
    /\ (mpc = "L384" /\ flagSetInRun) => should_exit
    /\ (TaskReturns /\ tapDecoded) => ~should_exit

\* C6: after a BothHold performed while the task runs with its monitor
\* started, the machine is reset or a monitor is about to reset it.
C6_HoldDuringRunResets ==
    holdInRun => \/ power = "reset"
                 \/ \E t \in Monitors : t.action = "both_long"

\* C7: in the main loop, in every mode and with the screensaver showing or
\* not, 'both_long' resets the machine and changes neither the mode, nor a
\* selection, nor a scroll offset.
C7_BothHoldResets ==
    [][MainGesture("both_long") =>
          /\ power' = "reset"
          /\ UNCHANGED <<mode, menu_selected, selected_index, scroll_offset,
                         fb_scroll, output_lines, current_path, items>>]_vars

\* C7 happened: the main loop was reset by 'both_long' in the file browser.
C7_Witness == power = "reset" /\ action = "both_long" /\ mode = "cbin"

\* C8: no failure of a task ends the main loop, and execute_file returns
\* from a failure with running false and the flag clear.
C8_FailureReturnsResult ==
    /\ mpc # "crashed"
    /\ mpc \in {"L395", "L400"} => ~running /\ ~should_exit

\* What execute_file returns from each of its return statements.
Returned ==
    CASE mpc = "L342" -> NotPy
      [] mpc = "L390" -> ExitedNormally
      [] mpc = "L395" -> Interrupted
      [] mpc = "L400" -> ExecError(error_msg)

\* C9: in the file browser 'btn2_short' on a file calls execute_file with
\* the path of that entry, and on a directory or the parent entry keeps the
\* mode; the rejection of a file that is not .py touches neither running,
\* nor the flag, nor the monitors; every return leaves the mode 'output',
\* the output lines equal to the result and the output scroll offset 0.
C9_FileRunsDirStays ==
    [][/\ (mode = "cbin" /\ MainGesture("btn2_short")) =>
            /\ get_selected_item.type = "file" =>
                   mpc' = "L341" /\ filepath' = get_selected_item.path
            /\ get_selected_item.type \in {"dir", "parent"} =>
                   mpc' = "loop" /\ mode' = "cbin"
       /\ ((mpc = "L341" /\ mpc' = "L342") \/ (mpc = "L342" /\ mpc' = "loop")) =>
            UNCHANGED <<running, should_exit, mon>>
       /\ (CallReturns /\ mpc' = "loop") =>
            /\ mode' = "output"
            /\ output_lines' = Returned
            /\ scroll_offset' = 0]_vars

\* C9 happened: a file that is not .py was rejected and its result is shown.
C9_Witness ==
    /\ mpc = "loop" /\ mode = "output"
    /\ output_lines = NotPy /\ scroll_offset = 0

\* C10: the items hold a parent entry exactly when the browser is not at
\* the root.
C10_ParentIffNotRoot ==
    (\E i \in 1..Len(items) : items[i].type = "parent") <=> current_path # "/"

\* C20: a call of get_input that found a line pressed at its first sample
\* and no line pressed at the end of the 50 ms debounce sleep returns None.
C20_DebounceRejectsGlitch == (dpc = "idle" /\ quiet) => ret = NoGesture

\* C21: a call of get_input that found both lines pressed at the end of the
\* debounce sleep returns 'both_short' or 'both_long'.
C21_BothAfterDebounceIsBoth ==
    (dpc = "idle" /\ bothDown) => ret \in {"both_short", "both_long"}

\* The single-button branch of line A, at the statements `loop` (the hold
\* loop's test), `body`, `tapWait` (wait for B's release), `holdWait` (wait
\* for A's release, combo) and `plain` (wait for A's release, tap): a and b
\* are the levels of A and B.
ComboOrTap(body, tapWait, holdWait, plain, a, b, combo, tap) ==
    /\ (dpc = body /\ b /\ dpc' # dpc) => dpc' = tapWait
    /\ (dpc = tapWait /\ dpc' # dpc) => (~b /\ dpc' = holdWait)
    /\ (dpc = holdWait /\ dpc' # dpc) => (~a /\ dpc' = "idle" /\ ret' = combo)
    /\ (dpc # "idle" /\ dpc' = "idle" /\ ret' = combo) => dpc = holdWait
    /\ (dpc = body /\ ~b /\ elapsed > long_press_ms /\ dpc' # dpc) =>
          dpc' = plain
    /\ (dpc = plain /\ dpc' # dpc) => (~a /\ dpc' = "idle" /\ ret' = tap)

\* C22: in the single-button branch of A, when B is seen pressed in the
\* hold loop the call returns the A-hold-B-tap gesture, and only once B and
\* then A were seen released; when the 800 ms pass with B never seen
\* pressed the loop is left, and the call returns A's tap when A is seen
\* released, whatever B does in between.  For A = btn1 and for A = btn2.
C22_HoldComboOrTap ==
    [][/\ ComboOrTap("L145", "L147", "L150", "L160", btn1, btn2,
                     "btn1_hold_btn2_tap", "btn1_short")
       /\ ComboOrTap("L169", "L171", "L174", "L184", btn2, btn1,
                     "btn2_hold_btn1_tap", "btn2_short")]_vars

\* C22 happened: btn1 was held past the threshold, btn2 was pressed after
\* it and is still pressed, and the call returned btn1's tap.
C22_Witness ==
    /\ dpc = "idle" /\ ret = "btn1_short"
    /\ elapsed > long_press_ms /\ btn2

\* C25: a call that reads no line pressed at lines 117-118 returns None
\* there, without a sleep; and when from some moment on both lines stay
\* released, every call of get_input returns.
C25_GetInputReturns ==
    /\ [][(dpc = "L118" /\ ~btn1_pressed /\ ~btn2 /\ dpc' # dpc) =>
             (dpc' = "idle" /\ ret' = NoGesture /\ elapsed' = elapsed)]_vars
    /\ (<>[](~btn1 /\ ~btn2)) => [](dpc # "idle" => <>(dpc = "idle"))

\* C25 happened: a call that had waited for the release of a long press of
\* both lines returned once they were let go.
C25_Witness ==
    /\ dpc = "idle" /\ ret = "both_long" /\ ~btn1 /\ ~btn2 /\ calls = MaxCalls

(***************************************************************************)
(* Properties of the lists and the viewports (SpecUI)                      *)
(***************************************************************************)
\* The selection is among the lines the file browser shows.
InView == fb_scroll <= selected_index /\ selected_index < fb_scroll + max_lines

\* C11: after every next_item() on a non-empty file-browser list, wherever
\* scroll_down()/scroll_up() had left the viewport, the selection is in view.
C11_SelectionInView == (mode = "cbin" /\ streak > 0) => InView

\* C11 happened: next_item() was called with the selection out of view.
C11_Witness == mode = "cbin" /\ streak > 0 /\ away

\* C12: the scroll offsets of the file browser and of the output stay
\* within 0 .. max(0, length - 6); a scroll gesture moves its offset by at
\* most one and leaves the selection alone.
C12_ScrollOffsetsInRange ==
    /\ [](/\ 0 <= fb_scroll
          /\ fb_scroll <= Max(0, Len(items) - max_lines)
          /\ 0 <= scroll_offset
          /\ scroll_offset <= Max(0, Len(output_lines) - max_lines))
    /\ [][\A g \in {"btn1_hold_btn2_tap", "btn2_hold_btn1_tap"} :
             /\ (mode = "cbin" /\ Browse(g)) =>
                    /\ fb_scroll' - fb_scroll \in {-1, 0, 1}
                    /\ UNCHANGED <<selected_index, items, scroll_offset>>
             /\ (mode = "output" /\ Browse(g)) =>
                    /\ scroll_offset' - scroll_offset \in {-1, 0, 1}
                    /\ UNCHANGED <<selected_index, menu_selected, fb_scroll>>]_vars

\* C12 happened: the browser was scrolled down to its last offset, away from
\* the selection.
C12_Witness ==
    /\ mode = "cbin" /\ selected_index = 0
    /\ fb_scroll > 0 /\ fb_scroll = Len(items) - max_lines

\* The list of the mode and its selection.
ListLen == IF mode = "menu" THEN Len(menu_items) ELSE Len(items)
Selected == IF mode = "menu" THEN menu_selected ELSE selected_index

\* C13: k consecutive next_item() calls on a list of N >= 1 items leave the
\* selection at (start + k) mod N, inside 0..N-1, so N calls bring it back
\* to where it started; on an empty list next_item() changes nothing.
C13_AdvanceIsCyclic ==
    /\ [](streak > 0 =>
            /\ 0 <= Selected /\ Selected < ListLen
            /\ Selected = (start + streak) % ListLen
            /\ streak = ListLen => Selected = start)
    /\ [][(mode = "cbin" /\ items = <<>> /\ Browse("btn1_short")) =>
             UNCHANGED <<uiVars, mpc, power>>]_vars

\* C13 happened: the selection went once around the eight items of a
\* directory.
C13_Witness == mode = "cbin" /\ Len(items) = 8 /\ streak = 8

\* The items below the parent entry.
Listed == IF current_path = "/" THEN items ELSE Tail(items)

\* The gesture g makes the main loop call refresh_items(): 'cbin' run from
\* the menu (line 678), or a directory or parent entry entered (line 505).
Refreshes(g) ==
    /\ g = "btn2_short"
    /\ \/ mode = "menu" /\ get_selected = "cbin"
       \/ mode = "cbin" /\ get_selected_item.type \in {"dir", "parent"}

\* The directory refresh_items() lists then.
Target == IF mode = "menu" THEN current_path ELSE get_selected_item.path

\* C14: when the listing of currentPath succeeds, the items are one parent
\* entry first when currentPath is not the root, then exactly the listed
\* names without 'main.py', in ascending order, each a dir when it can be
\* listed and a file otherwise, with the path currentPath joined with the
\* name; every refresh sets the selection and the scroll offset to 0.
C14_RefreshListsDirectory ==
    /\ [](IsDir(fs, current_path) =>
            /\ current_path # "/" =>
                   /\ items # <<>>
                   /\ items[1].type = "parent"
            /\ {Listed[i].name : i \in 1..Len(Listed)}
                   = listdir(fs, current_path) \ {"main.py"}
            /\ \A i \in 1..(Len(Listed) - 1) :
                   StrLess(Listed[i].name, Listed[i + 1].name)
            /\ \A i \in 1..Len(Listed) :
                   /\ Listed[i].type
                         = IF IsDir(fs, Listed[i].path) THEN "dir" ELSE "file"
                   /\ Listed[i].path
                         = IF current_path = "/" THEN "/" \o Listed[i].name
                           ELSE current_path \o "/" \o Listed[i].name)
    /\ [][Refreshes("btn2_short") =>
             \/ selected_index' = 0 /\ fb_scroll' = 0
             \/ ~Browse("btn2_short")]_vars

\* C14 happened: a directory below the root was listed, launcher included
\* in what os.listdir returned.
C14_Witness ==
    /\ mode = "cbin" /\ current_path = "/zlib"
    /\ "main.py" \in listdir(fs, current_path)
    /\ Len(items) = 7 /\ selected_index = 0 /\ fb_scroll = 0

\* C17: in the menu [cfetch, ctop, cbin, reboot], selection 0 followed by
\* k 'btn1_short' and one 'btn2_short' runs the command at index k mod 4:
\* cfetch and ctop show their text from its top, cbin opens the browser on
\* a fresh listing, reboot resets the machine; after the reset nothing
\* takes a step.
C17_MenuRunsSelected ==
    [][/\ (mode = "menu" /\ start = 0 /\ Browse("btn2_short")) =>
            LET cmd == menu_items[(streak % 4) + 1]
            IN /\ cmd = "cfetch" =>
                     mode' = "output" /\ output_lines' = cfetch
                     /\ scroll_offset' = 0
               /\ cmd = "ctop" =>
                     mode' = "output" /\ output_lines' = ctop
                     /\ scroll_offset' = 0
               /\ cmd = "cbin" =>
                     mode' = "cbin" /\ items' = refreshed(fs, current_path)
               /\ (cmd = "reboot") = (power' = "reset")
       /\ power = "on"]_vars

\* C17 happened: reboot was selected and run from the menu.
C17_Witness ==
    /\ power = "reset" /\ action = "btn2_short"
    /\ mode = "menu" /\ menu_selected = 3

(***************************************************************************)
(* Properties of the main loop (Spec)                                      *)
(***************************************************************************)
\* The entry that stands for a failed listing.
ErrorEntry == [name |-> "Error: " \o ListError, type |-> "error", path |-> ""]

\* C15: a refresh whose listing fails leaves exactly one error entry with
\* the error text, selection and scroll offset 0, the path it was asked to
\* list, and the caller goes on as after any refresh (execute_command sets
\* the mode 'cbin' at line 679, enter_selected leaves it); 'btn2_short' on
\* the error entry changes nothing.
C15_ListingFailureIsSoft ==
    [][/\ (Refreshes("btn2_short") /\ MainGesture("btn2_short")
             /\ ~IsDir(fs, Target)) =>
            /\ items' = <<ErrorEntry>>
            /\ selected_index' = 0 /\ fb_scroll' = 0
            /\ current_path' = Target
            /\ mode' = "cbin"
            /\ mpc' = "loop" /\ power' = "on"
            /\ UNCHANGED <<output_lines, scroll_offset, menu_selected>>
       /\ (mode = "cbin" /\ get_selected_item.type = "error"
             /\ MainGesture("btn2_short")) =>
            UNCHANGED <<uiVars, mpc, filepath, power, should_exit, running>>]_vars

\* C15 happened: the browser shows the error entry of a directory that is
\* gone.
C15_Witness ==
    /\ mode = "cbin" /\ current_path = "/tools" /\ ~IsDir(fs, current_path)
    /\ items = <<ErrorEntry>> /\ selected_index = 0 /\ fb_scroll = 0

\* C16: in the file browser 'btn2_short' on a directory entry makes its
\* path the current path ('/tools' for the entry tools of the root) and
\* lists it; 'both_short' then sets the mode 'menu' and leaves the current
\* path and the items alone.
C16_EnterDirThenBack ==
    [][/\ (mode = "cbin" /\ get_selected_item.type = "dir"
             /\ MainGesture("btn2_short")) =>
            /\ current_path' = get_selected_item.path
            /\ (current_path = "/" /\ get_selected_item.name = "tools") =>
                   current_path' = "/tools"
            /\ items' = refreshed(fs, current_path')
            /\ mode' = "cbin"
       /\ (mode = "cbin" /\ MainGesture("both_short")) =>
            /\ mode' = "menu"
            /\ UNCHANGED <<current_path, items>>]_vars

\* C16 happened: /tools was entered and left by 'both_short', nothing else
\* having been shown.
C16_Witness ==
    /\ mode = "menu" /\ current_path = "/tools" /\ output_lines = <<>>
    /\ items = refreshed("full", "/tools")

\* C18: in output mode 'btn1_short' and 'btn2_short' set the mode 'menu';
\* the two hold-and-tap gestures keep the mode and change nothing but the
\* scroll offset of the output; no step goes from output mode to the
\* browser.
C18_OutputTransitions ==
    [][/\ (mode = "output" /\ (\/ MainGesture("btn1_short")
                                \/ MainGesture("btn2_short"))) =>
            mode' = "menu"
       /\ (mode = "output" /\ (\/ MainGesture("btn1_hold_btn2_tap")
                                \/ MainGesture("btn2_hold_btn1_tap"))) =>
            /\ mode' = "output"
            /\ UNCHANGED <<output_lines, menu_selected, current_path, items,
                           selected_index, fb_scroll, screensaver_active,
                           mainVars, should_exit, running>>
       /\ mode = "output" => mode' # "cbin"]_vars

\* C18 happened: an output longer than the screen was scrolled to its end.
C18_Witness ==
    /\ mode = "output" /\ scroll_offset > 0
    /\ scroll_offset = Len(output_lines) - max_lines

\* What C19 lists.
Frame == <<mode, menu_selected, output_lines, scroll_offset, fb_scroll,
           current_path, items, selected_index, should_exit>>

\* The gestures the handler of the active mode has no branch for
\* (lines 698-711, 713-729).
Unmapped ==
    IF mode = "menu"
    THEN {"btn1_hold_btn2_tap", "btn2_hold_btn1_tap", "both_short"}
    ELSE IF mode = "output" THEN {"both_short"}
    ELSE {}

\* The monitor threads of b that have decoded 'both_short' and are about to
\* call request_exit() (lines 330-332).
Cued(b) ==
    CopiesIn([pc |-> "L329", action |-> "both_short", stale |-> FALSE], b)
    + CopiesIn([pc |-> "L329", action |-> "both_short", stale |-> TRUE], b)

\* C19: an iteration without a gesture, and a gesture the active mode has
\* no entry for, leave the mode, the menu selection, the output lines, both
\* scroll offsets, the browser's path, items and selection and the exit
\* flag as they were, and leave no thread about to set the exit flag for
\* that gesture.
C19_UnmappedGestureIsNoOp ==
    [][/\ MainIdle => UNCHANGED Frame
       /\ \A g \in Unmapped :
             MainGesture(g) =>
                /\ UNCHANGED Frame
                /\ Cued(mon') = Cued(mon)]_vars

\* C23: at most one monitor thread is alive at any time, and while a task
\* runs no monitor of an earlier run is alive: none at all when the run
\* could not start its own.
C23_OneMonitorPerRun ==
    /\ BagCardinality(mon) <= 1
    /\ (mpc = "L384" /\ ~started) => mon = EmptyBag

\* C24: a monitor that sets the exit flag changes nothing of the main
\* thread, of the task's files or of the screen; the task leaves exec() only
\* by ending itself, whatever the flag, and execute_file returns only from
\* the statements that follow the end of the task (or the rejection).
C24_CancellationIsCooperative ==
    [][/\ \A t \in Monitors :
             (t.action = "both_short" /\ MonitorAct(t)) =>
                /\ should_exit'
                /\ UNCHANGED <<running, mainVars, uiVars>>
       /\ (mpc = "L384" /\ mpc' # mpc) => \E how \in Ends : TaskEnd(how)
       /\ (mpc = "L384" /\ UserGesture("both_short")) =>
             UNCHANGED <<should_exit, running, mainVars, uiVars>>
       /\ (mpc # "loop" /\ mpc' = "loop") => CallReturns]_vars

\* C24 happened: the flag was set while the task ran, the task has not read
\* it and is still running.
C24_Witness ==
    /\ power = "on" /\ mpc = "L384"
    /\ should_exit /\ flagSetInRun /\ observed = "clear"

====
